---- MODULE Spec2Model ----
(***************************************************************************)
(* A model of mcp_server_asrockind: the product-search tool (call_tool),   *)
(* the orchestrator (AsrockindServer.search_products), the browser session *)
(* (WebDriverManager), the browser scraper (ProductScraper), the HTTP      *)
(* fallback (FallbackScraper) and the shutdown path of serve().            *)
(*                                                                         *)
(* Requests are coroutines of one event loop.  A coroutine gives the loop  *)
(* up only at an await (asyncio.sleep); everything between two awaits is   *)
(* synchronous code, modelled as a chain of steps taken by the coroutine   *)
(* named in running while every other coroutine stands still.  What the    *)
(* website, the browser and the network answer is chosen by \E.            *)
(***************************************************************************)
EXTENDS Integers, Sequences, FiniteSets

\* ------------------------------------------------------------ bounds
\* Most product-link elements a served search page holds.
MaxLinks == 3
\* Tool calls in flight on the event loop at once.
NumRequests == 2

\* ------------------------------------------------------- configuration
\* MAX_RETRIES and MAX_PRODUCTS are read with int() and never range-checked.
RetryValues == {-1, 0, 1, 2}
ProductCapValues == {-1, 0, 1, 2, 3}
\* len(query) < 2 is rejected.
MinQueryLength == 2

Requests == 1..NumRequests

\* --------------------------------------------------------------- values
\* Python's None, and a present value v, as a sequence of at most one element.
None == <<>>
Some(v) == <<v>>

\* A lone surrogate: a character of a Python str that UTF-8 cannot encode.
Surrogate == "\\ud800"
Whitespace == {" "}

\* The query arguments tried: missing, empty, blank, too short before and
\* after trimming, long enough, and long enough but not encodable.
QueryArguments ==
  { None,
    Some(<<>>),
    Some(<<" ">>),
    Some(<<"a">>),
    Some(<<" ", "a">>),
    Some(<<"a", "b">>),
    Some(<<" ", "a", "b", " ">>),
    Some(<<Surrogate, "a">>) }

SEARCH_PRODUCTS == "asrock_industrial_product_search"
ToolNames == {SEARCH_PRODUCTS, "other_tool"}

RECURSIVE lstrip(_)
lstrip(s) ==
  IF s # <<>> /\ Head(s) \in Whitespace THEN lstrip(Tail(s)) ELSE s

RECURSIVE rstrip(_)
rstrip(s) ==
  IF s # <<>> /\ s[Len(s)] \in Whitespace
  THEN rstrip(SubSeq(s, 1, Len(s) - 1))
  ELSE s

\* str.strip()
strip(s) == rstrip(lstrip(s))

\* urllib.parse.quote(query) raises UnicodeEncodeError on a lone surrogate.
quote_ok(q) == \A k \in 1..Len(q) : q[k] # Surrogate

\* len(links[:cap]) for a list of n links, as Python slices.
slice_len(n, cap) ==
  IF cap >= 0
  THEN (IF cap < n THEN cap ELSE n)
  ELSE (IF n + cap > 0 THEN n + cap ELSE 0)

\* A parsed search page: is div.no-result there, and how many
\* a.whole-link.d-block elements.
Pages == [no_result : BOOLEAN, links : 0..MaxLinks]
NoPage == [no_result |-> FALSE, links |-> 0]

\* Mutant: the marker is looked up with a selector that never matches.
no_results_missed(pg) == FALSE

\* soup.select_one('div.no-result')
no_results(pg) == pg.no_result

\* Mutant: the length is tested before the query is trimmed.
query_rejected_untrimmed(arg) ==
  \/ arg = None
  \/ arg[1] = <<>>
  \/ Len(arg[1]) < MinQueryLength

\* call_tool's validation: not query, or len(query.strip()) < 2.
query_rejected(arg) ==
  \/ arg = None
  \/ arg[1] = <<>>
  \/ Len(strip(arg[1])) < MinQueryLength

\* The elements of a sequence.
Range(seq) == {seq[k] : k \in 1..Len(seq)}

\* -------------------------------------------------------- product pages
\* A parsed product page is the sequence of its headings, tables and
\* description blocks in document order.  An element carries the text nodes
\* below it (strings); a table carries its rows, a row being the sequence of
\* its td/th cells and a cell the sequence of its text nodes.
Heading(tag, class, strings) ==
  [tag |-> tag, class |-> class, strings |-> strings, rows |-> <<>>]
Table(class, rows) ==
  [tag |-> "table", class |-> class, strings |-> <<>>, rows |-> rows]
Block(class, strings) ==
  [tag |-> "div", class |-> class, strings |-> strings, rows |-> <<>>]

RECURSIVE concat(_)
\* element.text: the text nodes joined.
concat(strings) ==
  IF strings = <<>> THEN <<>> ELSE Head(strings) \o concat(Tail(strings))

\* element.text.strip()
text_strip(strings) == strip(concat(strings))

RECURSIVE stripped_strings(_)
\* The text nodes, each stripped, the empty ones dropped.
stripped_strings(strings) ==
  IF strings = <<>> THEN <<>>
  ELSE LET h == strip(Head(strings)) IN
       (IF h = <<>> THEN <<>> ELSE <<h>>) \o stripped_strings(Tail(strings))

\* element.get_text(strip=True)
get_text_strip(strings) == concat(stripped_strings(strings))

\* str.lower() on the letters the pages use.
lower_char(c) ==
  CASE c = "C" -> "c"
    [] c = "D" -> "d"
    [] c = "F" -> "f"
    [] c = "K" -> "k"
    [] c = "S" -> "s"
    [] c = "V" -> "v"
    [] OTHER -> c
lower(str) == [k \in 1..Len(str) |-> lower_char(str[k])]

RECURSIVE find_previous(_, _, _, _)
\* table.find_previous(tag, class_=class) for the table after position k:
\* the nearest element before it with that tag (and that class, if given).
find_previous(doc, k, tag, class) ==
  IF k = 0 THEN None
  ELSE IF doc[k].tag = tag /\ (class = "" \/ doc[k].class = class)
       THEN Some(doc[k])
       ELSE find_previous(doc, k - 1, tag, class)

\* The class attributes the pages use, and which of them the selectors
\* 'table.table-spec' and 'table[class*="spec"]' match.
TableClasses == {"table-spec", "product-specs", "data"}
has_class_table_spec(class) == class = "table-spec"
class_contains_spec(class) == class \in {"table-spec", "product-specs"}
\* '.product-desc, .overview, .description'
is_description(class) == class \in {"product-desc", "overview", "description"}

\* specs[key] = value
put(d, key, value) ==
  [k \in DOMAIN d \cup {key} |-> IF k = key THEN value ELSE d[k]]

Separator == <<" ", "-", " ">>

\* Mutant: the category is joined to the field by ": ".
full_key_colon(category, key) ==
  IF category # <<>> THEN category \o <<":", " ">> \o key ELSE key

\* f"{category} - {key}" if category else key
full_key(category, key) ==
  IF category # <<>> THEN category \o Separator \o key ELSE key

RECURSIVE browser_rows(_, _, _)
\* _extract_specifications: for row in table.select('tr')
browser_rows(rows, category, d) ==
  IF rows = <<>> THEN d
  ELSE LET cells == Head(rows)
           key == text_strip(cells[1])
           value == text_strip(cells[2])
       IN browser_rows(Tail(rows), category,
                       IF Len(cells) >= 2 /\ key # <<>> /\ value # <<>>
                       THEN put(d, full_key(category, key), value)
                       ELSE d)

\* _extract_specifications: category = prev_h3.text.strip() if prev_h3
browser_category(doc, k) ==
  LET prev_h3 == find_previous(doc, k - 1, "h3", "title-sub") IN
  IF prev_h3 # None THEN text_strip(prev_h3[1].strings) ELSE <<>>

RECURSIVE browser_tables(_, _, _)
\* _extract_specifications: for table in soup.select('table.table-spec')
browser_tables(doc, k, d) ==
  IF k > Len(doc) THEN d
  ELSE browser_tables(doc, k + 1,
         IF doc[k].tag = "table" /\ has_class_table_spec(doc[k].class)
         THEN browser_rows(doc[k].rows, browser_category(doc, k), d)
         ELSE d)

\* ProductScraper._extract_specifications(soup)
_extract_specifications(doc) == browser_tables(doc, 1, <<>>)

\* The first-cell texts that _extract_specifications_simple takes for a
\* header row.
Specification ==
  <<"s", "p", "e", "c", "i", "f", "i", "c", "a", "t", "i", "o", "n">>
Feature == <<"f", "e", "a", "t", "u", "r", "e">>
HeaderKeys == {Specification, Feature}

RECURSIVE fallback_rows(_, _, _)
\* _extract_specifications_simple: for row in table.select('tr')
fallback_rows(rows, category, d) ==
  IF rows = <<>> THEN d
  ELSE LET cells == Head(rows)
           key == get_text_strip(cells[1])
           value == get_text_strip(cells[2])
       IN fallback_rows(Tail(rows), category,
                        IF /\ Len(cells) >= 2
                           /\ key # <<>>
                           /\ value # <<>>
                           /\ lower(key) \notin HeaderKeys
                        THEN put(d, full_key(category, key), value)
                        ELSE d)

\* _extract_specifications_simple: the first of h3, h2, h4 that has an
\* element before the table gives the category, whatever its text.
fallback_category(doc, k) ==
  LET h3 == find_previous(doc, k - 1, "h3", "")
      h2 == find_previous(doc, k - 1, "h2", "")
      h4 == find_previous(doc, k - 1, "h4", "")
  IN IF h3 # None THEN get_text_strip(h3[1].strings)
     ELSE IF h2 # None THEN get_text_strip(h2[1].strings)
     ELSE IF h4 # None THEN get_text_strip(h4[1].strings)
     ELSE <<>>

RECURSIVE fallback_tables(_, _, _)
\* for table in soup.select('table.table-spec, table[class*="spec"]')
fallback_tables(doc, k, d) ==
  IF k > Len(doc) THEN d
  ELSE fallback_tables(doc, k + 1,
         IF /\ doc[k].tag = "table"
            /\ (has_class_table_spec(doc[k].class) \/ class_contains_spec(doc[k].class))
         THEN fallback_rows(doc[k].rows, fallback_category(doc, k), d)
         ELSE d)

\* len(text) > 10, and text[:500] + '...' if len(text) > 500
DescMinLength == 10
DescMaxLength == 500
Description ==
  <<"D", "e", "s", "c", "r", "i", "p", "t", "i", "o", "n">>
Ellipsis == <<".", ".", ".">>

RECURSIVE fallback_description(_, _)
\* if not specs: the first description block with more than 10 characters
\* of text gives specs['Description'], cut to 500 characters and '...'.
fallback_description(doc, k) ==
  IF k > Len(doc) THEN <<>>
  ELSE LET text == get_text_strip(doc[k].strings) IN
       IF is_description(doc[k].class) /\ Len(text) > DescMinLength
       THEN put(<<>>, Description,
                IF Len(text) > DescMaxLength
                THEN SubSeq(text, 1, DescMaxLength) \o Ellipsis
                ELSE text)
       ELSE fallback_description(doc, k + 1)

\* FallbackScraper._extract_specifications_simple(soup)
_extract_specifications_simple(doc) ==
  LET d == fallback_tables(doc, 1, <<>>) IN
  IF DOMAIN d = {} THEN fallback_description(doc, 1) ELSE d

\* ------------------------------------------------------------ variables
VARIABLES
  max_retries,              \* scraping_config.max_retries
  max_products_per_search,  \* scraping_config.max_products_per_search
  phase,                    \* serve(): "boot", "serving", "finally", "stopped"
  driver,                   \* WebDriverManager.driver is not None
  _initialization_failed,   \* WebDriverManager._initialization_failed
  session_closed,           \* FallbackScraper.session has been closed
  exit_by,                  \* how server.run ended: "none", "return", "exception"
  pc,                       \* per request: "idle", "search_delay", "running", "backoff"
  query,                    \* per request: call_tool's local query
  attempt,                  \* per request: search_products' loop variable
  attempts,                 \* per request: loop bodies entered in this call
  running,                  \* the request whose synchronous code runs, or 0
  step,                     \* where that synchronous code stands
  ret,                      \* safe_get's caller: "search" or "product"
  sg_attempt,               \* safe_get's loop variable
  page,                     \* the parsed search page of the running path
  product_links,            \* len(product_links) of the running path
  i,                        \* the product being scraped, 1..product_links
  products,                 \* the products list of the running path
  called,                   \* searches started in this attempt, per path
  gets,                     \* GETs sent by the running fallback search, per kind
  ev,                       \* what the last step did to the outside world
  out,                      \* what the last step handed to the caller
  procs,                    \* browser processes launched and not quit since
  site,                     \* what the website serves: AnySite, or a fixed catalog
  first,                    \* on a fixed catalog: the first search answered
  repeat,                   \* requests that repeat the query of first
  soup,                     \* a parsed product page handed to an extractor
  extractor,                \* which extractor reads soup: "browser" or "fallback"
  specs                     \* the specifications dictionary it returned

config == <<max_retries, max_products_per_search>>
extraction == <<soup, extractor, specs>>
\* What no step of the server changes.
fixed == <<config, site, extraction>>
session == <<driver, _initialization_failed, procs, session_closed>>
request == <<pc, query, attempt, attempts>>
history == <<first, repeat>>
scrape == <<step, ret, sg_attempt, page, product_links, i, products, called, gets>>
vars == <<fixed, phase, exit_by, session, request, history, running, scrape, ev, out>>

\* ------------------------------------------------------------- website
\* The website answers anything at any time.
AnySite == None
\* An unchanged catalog: the search page it serves, and the URLs that fail
\* whoever asks (0 is the search URL, k the product page of link k).
Sites ==
  {Some(s) : s \in {c \in [page : Pages, broken : SUBSET (0..MaxLinks)] :
                       c.broken \subseteq 0..c.page.links}}

\* Does driver.get(url) or session.get(url) go through.
loads(url) == IF site = AnySite THEN BOOLEAN ELSE {url \notin site[1].broken}
\* The search page that comes back.
served == IF site = AnySite THEN Pages ELSE {site[1].page}
\* Does wait.until find a product link or the no-results marker.
waits ==
  IF site = AnySite THEN BOOLEAN
  ELSE {site[1].page.no_result \/ site[1].page.links > 0}
\* Does link_element['href'] exist.
hrefs == IF site = AnySite THEN BOOLEAN ELSE {TRUE}
\* Does driver.page_source raise.
raises == IF site = AnySite THEN BOOLEAN ELSE {FALSE}
\* Does a loaded product page parse into a product.
extracts == IF site = AnySite THEN BOOLEAN ELSE {TRUE}

NoCalls == [selenium |-> 0, fallback |-> 0]
NoGets == [search |-> 0, detail |-> 0]

\* ------------------------------------------------------------ responses
\* Mutant: the method is reported without looking at the flag.
search_method_fixed == "Selenium + Fallback (requests)"

\* "Selenium + Fallback (requests)" if not _initialization_failed else ...
search_method ==
  IF ~_initialization_failed
  THEN "Selenium + Fallback (requests)"
  ELSE "Fallback only (requests)"

NoResponse ==
  [kind |-> "none", request |-> 0, query |-> None,
   total_results |-> 0, products |-> <<>>, search_method |-> ""]

\* Mutant: total_results counts the links selected, not the products scraped.
response_data_counts_links(r, q, result) ==
  [kind |-> "envelope", request |-> r, query |-> Some(q),
   total_results |-> product_links, products |-> result,
   search_method |-> search_method]

\* response_data of call_tool for the list search_products returned.
response_data(r, q, result) ==
  [kind |-> "envelope", request |-> r, query |-> Some(q),
   total_results |-> Len(result), products |-> result,
   search_method |-> search_method]

\* raise McpError(...): the caller sees an error.
tool_error(r, q) ==
  [kind |-> "error", request |-> r, query |-> q,
   total_results |-> 0, products |-> <<>>, search_method |-> ""]

\* ----------------------------------------------------- browser session
QuitOutcomes == {"ok", "raises"}
\* webdriver.Chrome(...) returns, or raises; or it returns and a later line
\* of the try block (set_page_load_timeout, implicitly_wait) raises.
LaunchOutcomes == {"ok", "chrome_raises", "timeout_raises"}

\* Mutant: quit() is called outside any try, so what it raises propagates
\* and the handle is kept.
cleanup_driver_unguarded(drv, n, quit) ==
  IF drv
  THEN [driver |-> quit # "ok", procs |-> n - 1, raised |-> quit # "ok",
        ev |-> IF quit = "ok" THEN {"quit"} ELSE {"quit", "quit_raised"}]
  ELSE [driver |-> FALSE, procs |-> n, raised |-> FALSE, ev |-> {}]

\* WebDriverManager.cleanup_driver on the handle drv, with n processes
\* launched and not quit: quit() is called on a held handle, whatever it
\* raises is swallowed, and the handle is dropped.
cleanup_driver(drv, n, quit) ==
  IF drv
  THEN [driver |-> FALSE, procs |-> n - 1, raised |-> FALSE,
        ev |-> IF quit = "ok" THEN {"quit"} ELSE {"quit", "quit_raised"}]
  ELSE [driver |-> FALSE, procs |-> n, raised |-> FALSE, ev |-> {}]

\* Mutant: the handle held is overwritten without being quit.
launch_over_old(drv, n, quit) ==
  [driver |-> drv, procs |-> n, raised |-> FALSE, ev |-> {}]

\* setup_driver, before the launch: if self.driver: self.cleanup_driver()
quit_before_launch(drv, n, quit) == cleanup_driver(drv, n, quit)

\* WebDriverManager.setup_driver from (drv, failed) with n processes launched
\* and not quit: the handle, the flag and the processes it leaves, what it
\* returns, and what it did.  A webdriver.Chrome(...) that raises hands no
\* process over; when a later line of the try raises, self.driver is
\* assigned already and the except clause only sets the flag.
setup_driver(drv, failed, n, quit, launch) ==
  IF failed
  THEN [driver |-> drv, failed |-> TRUE, procs |-> n, ok |-> FALSE, ev |-> {}]
  ELSE LET c == quit_before_launch(drv, n, quit) IN
       CASE c.raised ->
              [driver |-> c.driver, failed |-> TRUE, procs |-> c.procs,
               ok |-> FALSE, ev |-> c.ev]
         [] ~c.raised /\ launch = "ok" ->
              [driver |-> TRUE, failed |-> FALSE, procs |-> c.procs + 1,
               ok |-> TRUE, ev |-> c.ev \cup {"launch"}]
         [] ~c.raised /\ launch = "chrome_raises" ->
              [driver |-> FALSE, failed |-> TRUE, procs |-> c.procs,
               ok |-> FALSE, ev |-> c.ev \cup {"launch"}]
         [] ~c.raised /\ launch = "timeout_raises" ->
              [driver |-> TRUE, failed |-> TRUE, procs |-> c.procs + 1,
               ok |-> FALSE, ev |-> c.ev \cup {"launch"}]

\* ------------------------------------------------------------- initial
\* The process before AsrockindServer() is built.
Unstarted ==
  /\ phase = "boot"
  /\ exit_by = "none"
  /\ driver = FALSE
  /\ _initialization_failed = FALSE
  /\ session_closed = FALSE
  /\ pc = [r \in Requests |-> "idle"]
  /\ query = [r \in Requests |-> None]
  /\ attempt = [r \in Requests |-> 0]
  /\ attempts = [r \in Requests |-> 0]
  /\ running = 0
  /\ step = "none"
  /\ ret = "none"
  /\ sg_attempt = 0
  /\ page = NoPage
  /\ product_links = 0
  /\ i = 0
  /\ products = <<>>
  /\ called = NoCalls
  /\ gets = NoGets
  /\ ev = {}
  /\ out = NoResponse
  /\ procs = 0
  /\ first = None
  /\ repeat = {}

\* update_config_from_env: any integer is taken for either setting.
Boot ==
  /\ max_retries \in RetryValues
  /\ max_products_per_search \in ProductCapValues
  /\ Unstarted

\* The server as it starts, facing a website that may answer anything.
Init ==
  /\ Boot
  /\ site = AnySite
  /\ soup = <<>>
  /\ extractor = "none"
  /\ specs = None

\* No synchronous code is running: the locals of the scraping paths are gone.
NoScrape ==
  /\ step' = "none"
  /\ ret' = "none"
  /\ sg_attempt' = 0
  /\ page' = NoPage
  /\ product_links' = 0
  /\ i' = 0
  /\ products' = <<>>
  /\ called' = NoCalls
  /\ gets' = NoGets

\* AsrockindServer.__init__: the managers are built and the browser launched.
AsrockindServer_init ==
  /\ phase = "boot"
  /\ phase' = "serving"
  /\ \E launch \in LaunchOutcomes :
       LET s == setup_driver(driver, _initialization_failed, procs, "ok", launch) IN
       /\ driver' = s.driver
       /\ _initialization_failed' = s.failed
       /\ procs' = s.procs
       /\ ev' = s.ev
  /\ UNCHANGED <<fixed, exit_by, session_closed, request, history, running,
                 scrape, out>>

\* ------------------------------------------------------- tool boundary
\* Mutant: a coroutine is resumed while another one is in synchronous code.
loop_preempts == TRUE

\* The event loop resumes a coroutine only when none is running: one that
\* runs keeps the loop until its next await, and search_products awaits
\* nothing but the asyncio.sleep of its delays.
loop_free == running = 0

\* call_tool returns rec to the caller of request r, whose coroutine ends.
Respond(r, rec) ==
  /\ out' = rec
  /\ first' = IF site # AnySite /\ first = None /\ rec.kind = "envelope"
              THEN Some([query |-> rec.query, products |-> Range(rec.products)])
              ELSE first
  /\ pc' = [pc EXCEPT ![r] = "idle"]
  /\ query' = [query EXCEPT ![r] = None]
  /\ attempt' = [attempt EXCEPT ![r] = 0]
  /\ attempts' = [attempts EXCEPT ![r] = 0]
  /\ running' = 0
  /\ NoScrape

\* search_products returns result to call_tool, which formats the response.
search_returns(r, result) ==
  /\ Respond(r, response_data(r, query[r][1], result))
  /\ UNCHANGED repeat

\* Mutant: the loop runs over range(max_retries + 1).
exhausted_late(r) == ~(attempt[r] + 1 < max_retries + 1)

\* range(max_retries) holds no value after attempt[r].
exhausted(r) == ~(attempt[r] + 1 < max_retries)

\* The next iteration of search_products' loop, or "All search attempts
\* failed" when range(max_retries) is used up.
next_attempt(r) ==
  IF ~exhausted(r)
  THEN /\ pc' = [pc EXCEPT ![r] = "search_delay"]
       /\ attempt' = [attempt EXCEPT ![r] = attempt[r] + 1]
       /\ attempts' = [attempts EXCEPT ![r] = attempts[r] + 1]
       /\ running' = 0
       /\ out' = NoResponse
       /\ NoScrape
       /\ UNCHANGED <<query, history>>
  ELSE search_returns(r, <<>>)

\* Mutant: the except clause logs and re-raises, so call_tool raises McpError.
attempt_failed_reraises(r) ==
  /\ Respond(r, tool_error(r, query[r]))
  /\ UNCHANGED repeat

\* except Exception of the attempt: sleep the doubled delay and continue
\* unless this was the last attempt.
attempt_failed(r) ==
  IF attempt[r] < max_retries - 1
  THEN /\ pc' = [pc EXCEPT ![r] = "backoff"]
       /\ running' = 0
       /\ out' = NoResponse
       /\ NoScrape
       /\ UNCHANGED <<query, attempt, attempts, history>>
  ELSE next_attempt(r)

\* call_tool up to its first await: the arguments are validated and
\* search_products runs to the delay of its first attempt.
call_tool(r) ==
  /\ phase = "serving"
  /\ loop_free
  /\ pc[r] = "idle"
  /\ UNCHANGED <<fixed, phase, exit_by, session>>
  /\ \E name \in ToolNames, arg \in QueryArguments :
       IF name # SEARCH_PRODUCTS
       THEN /\ ev' = {}
            /\ repeat' = repeat \ {r}
            /\ Respond(r, tool_error(r, None))
       ELSE IF query_rejected(arg)
       THEN /\ ev' = {}
            /\ repeat' = repeat \ {r}
            /\ Respond(r, tool_error(r, IF arg = None \/ arg[1] = <<>>
                                        THEN arg ELSE Some(strip(arg[1]))))
       ELSE LET q == strip(arg[1]) IN
            /\ repeat' = IF first # None /\ first[1].query = Some(q)
                         THEN repeat \cup {r} ELSE repeat \ {r}
            /\ IF 0 < max_retries
               THEN /\ ev' = {}
                    /\ pc' = [pc EXCEPT ![r] = "search_delay"]
                    /\ query' = [query EXCEPT ![r] = Some(q)]
                    /\ attempt' = [attempt EXCEPT ![r] = 0]
                    /\ attempts' = [attempts EXCEPT ![r] = 1]
                    /\ out' = NoResponse
                    /\ UNCHANGED <<first, running, scrape>>
               ELSE /\ ev' = {"log: all search attempts failed"}
                    /\ Respond(r, response_data(r, q, <<>>))

\* --------------------------------------------------------- orchestrator
\* Mutant: the orchestrator tries the browser whatever the flag says.
selenium_always == TRUE

\* if not self.driver_manager._initialization_failed:
selenium_enabled == ~_initialization_failed

\* One iteration of search_products' loop, from the end of its delay to the
\* call of the browser search or, with the session poisoned, to the fallback.
\* A query that quote() cannot encode makes scrape_search_results raise;
\* the inner except logs it and the fallback is tried.
search_products(r) ==
  /\ phase = "serving"
  /\ loop_free
  /\ pc[r] = "search_delay"
  /\ pc' = [pc EXCEPT ![r] = "running"]
  /\ running' = r
  /\ ev' = {"asyncio.sleep(search_delay)"}
  /\ out' = NoResponse
  /\ called' = [selenium |-> IF selenium_enabled THEN 1 ELSE 0,
                fallback |-> 0]
  /\ IF selenium_enabled /\ quote_ok(query[r][1])
     THEN step' = "safe_get" /\ ret' = "search"
     ELSE step' = "fallback" /\ ret' = "none"
  /\ sg_attempt' = 0
  /\ page' = NoPage
  /\ product_links' = 0
  /\ i' = 0
  /\ products' = <<>>
  /\ gets' = NoGets
  /\ UNCHANGED <<fixed, phase, exit_by, session, query, attempt, attempts,
                 history>>

\* The doubled retry delay is over: continue with the next iteration.
backoff(r) ==
  /\ phase = "serving"
  /\ loop_free
  /\ pc[r] = "backoff"
  /\ pc' = [pc EXCEPT ![r] = "search_delay"]
  /\ attempt' = [attempt EXCEPT ![r] = attempt[r] + 1]
  /\ attempts' = [attempts EXCEPT ![r] = attempts[r] + 1]
  /\ ev' = {"asyncio.sleep(2 * retry_delay)"}
  /\ out' = NoResponse
  /\ UNCHANGED <<fixed, phase, exit_by, session, query, history, running,
                 scrape>>

\* ---------------------------------------------------------- browser path
\* Mutant: a product that failed ends the loop.
after_product_aborts(ok) ==
  IF ok /\ i < product_links THEN "product_delay" ELSE "selenium_result"

\* Where the scraper goes once product i is dealt with, scraped (ok) or
\* not: the delay between products, or the return of the list after the
\* last one.
after_product(ok) ==
  IF i < product_links THEN "product_delay" ELSE "selenium_result"

\* Where safe_get's caller goes on its return value.
safe_get_returns(ok) ==
  IF ret = "search"
  THEN (IF ok THEN "wait_results" ELSE "selenium_result")
  ELSE (IF ok THEN "product_details" ELSE after_product(FALSE))

\* The synchronous step `at` of the running request: nothing is handed to the
\* caller and no other coroutine moves.
At(at) ==
  /\ phase = "serving"
  /\ running # 0
  /\ step = at

Sync(at) ==
  /\ At(at)
  /\ out' = NoResponse
  /\ UNCHANGED <<fixed, phase, exit_by, session_closed, request, history,
                 running>>

\* The steps inside safe_get; outside them its locals are gone.
InSafeGet ==
  {"safe_get", "ensure_driver", "launch_driver", "driver_get", "retry_delay"}

\* WebDriverManager.safe_get, to the head of its loop.
safe_get ==
  /\ Sync("safe_get")
  /\ ev' = {}
  /\ IF _initialization_failed \/ max_retries <= 0
     THEN step' = safe_get_returns(FALSE)
     ELSE step' = "ensure_driver"
  /\ sg_attempt' = 0
  /\ ret' = IF step' \in InSafeGet THEN ret ELSE "none"
  /\ UNCHANGED <<driver, _initialization_failed, procs, page, product_links, i,
                 products, called, gets>>

\* Mutant: every navigation sets the browser up anew.
reinitialize_always(drv, failed, alive) == TRUE

\* ensure_driver's condition, not self.driver or not self.is_driver_alive():
\* is_driver_alive is False on a set flag or no handle without probing, and
\* otherwise when reading driver.current_url raises.
reinitialize(drv, failed, alive) == ~drv \/ failed \/ ~alive

\* WebDriverManager.ensure_driver inside safe_get's try: the liveness probe
\* and, without a live browser, setup_driver up to its launch: a set flag
\* returns False, a handle still held is quit and dropped.
ensure_driver ==
  /\ Sync("ensure_driver")
  /\ \E alive \in BOOLEAN, quit \in QuitOutcomes :
       LET probe == IF ~driver \/ _initialization_failed THEN {}
                    ELSE IF alive THEN {"probe"}
                    ELSE {"probe", "probe_raised"} IN
       IF ~reinitialize(driver, _initialization_failed, alive)
       THEN /\ step' = "driver_get"
            /\ ev' = probe
            /\ UNCHANGED <<driver, _initialization_failed, procs>>
       ELSE IF _initialization_failed
       THEN /\ step' = safe_get_returns(FALSE)
            /\ ev' = {"log: reinitializing"}
            /\ UNCHANGED <<driver, _initialization_failed, procs>>
       ELSE LET c == quit_before_launch(driver, procs, quit) IN
            /\ driver' = c.driver
            /\ procs' = c.procs
            /\ _initialization_failed' = c.raised
            /\ ev' = c.ev \cup probe \cup {"log: reinitializing"}
            /\ step' = IF c.raised THEN safe_get_returns(FALSE)
                       ELSE "launch_driver"
  /\ ret' = IF step' \in InSafeGet THEN ret ELSE "none"
  /\ sg_attempt' = IF step' \in InSafeGet THEN sg_attempt ELSE 0
  /\ UNCHANGED <<page, product_links, i, products, called, gets>>

\* setup_driver from the launch on: webdriver.Chrome(...), the timeouts, the
\* anti-detection calls, and the except clause that sets the flag.
launch_driver ==
  /\ Sync("launch_driver")
  /\ \E quit \in QuitOutcomes, launch \in LaunchOutcomes :
       LET s == setup_driver(driver, _initialization_failed, procs,
                             quit, launch) IN
       /\ driver' = s.driver
       /\ _initialization_failed' = s.failed
       /\ procs' = s.procs
       /\ ev' = s.ev
       /\ step' = IF s.ok THEN "driver_get" ELSE safe_get_returns(FALSE)
  /\ ret' = IF step' \in InSafeGet THEN ret ELSE "none"
  /\ sg_attempt' = IF step' \in InSafeGet THEN sg_attempt ELSE 0
  /\ UNCHANGED <<page, product_links, i, products, called, gets>>

\* Mutant: the except clause retries after the last attempt as well.
retries_left_after_last == sg_attempt < max_retries

\* if attempt < scraping_config.max_retries - 1:
retries_left == sg_attempt < max_retries - 1

\* self.driver.get(url) and the except clause of safe_get.
driver_get ==
  /\ Sync("driver_get")
  /\ \E loaded \in loads(IF ret = "search" THEN 0 ELSE i) :
       /\ ev' = IF loaded THEN {"navigate"}
                ELSE {"navigate", "log: navigation failed"}
       /\ step' = IF loaded THEN safe_get_returns(TRUE)
                  ELSE IF retries_left THEN "retry_delay"
                  ELSE safe_get_returns(FALSE)
  /\ ret' = IF step' \in InSafeGet THEN ret ELSE "none"
  /\ sg_attempt' = IF step' \in InSafeGet THEN sg_attempt ELSE 0
  /\ UNCHANGED <<driver, _initialization_failed, procs, page, product_links, i,
                 products, called, gets>>

\* time.sleep(random.uniform(retry_delay_min, retry_delay_max)); continue
retry_delay ==
  /\ Sync("retry_delay")
  /\ ev' = {"time.sleep"}
  /\ sg_attempt' = sg_attempt + 1
  /\ step' = "ensure_driver"
  /\ UNCHANGED <<driver, _initialization_failed, procs, ret, page, product_links, i,
                 products, called, gets>>

\* Mutant: the timeout is logged and the page is read all the same.
after_wait_reads_page(found) == "page_source"

\* scrape_search_results after wait.until: on to page_source, or return []
\* from the except clause when it raised.
after_wait(found) == IF found THEN "page_source" ELSE "selenium_result"

\* scrape_search_results: wait.until(presence of a link or of div.no-result).
wait_results ==
  /\ Sync("wait_results")
  /\ \E found \in waits :
       /\ ev' = IF found THEN {"wait"}
                ELSE {"wait", "log: timeout waiting for search results"}
       /\ step' = after_wait(found)
  /\ UNCHANGED <<driver, _initialization_failed, procs, ret, sg_attempt, page,
                 product_links, i, products, called, gets>>

\* scrape_search_results from driver.page_source to the head of the product
\* loop.  page_source is read outside any try of the scraper: when it raises,
\* the orchestrator's inner except takes over and the fallback is tried.
page_source ==
  /\ Sync("page_source")
  /\ ev' = {"page_source"}
  /\ \E raised \in raises, pg \in served :
       IF raised
       THEN /\ step' = "fallback"
            /\ UNCHANGED <<page, product_links, i>>
       ELSE /\ page' = pg
            /\ IF no_results(pg)
               THEN /\ step' = "selenium_result"
                    /\ UNCHANGED <<product_links, i>>
               ELSE LET n == slice_len(pg.links, max_products_per_search) IN
                    /\ product_links' = n
                    /\ i' = IF n > 0 THEN 1 ELSE 0
                    /\ step' = IF n > 0 THEN "scrape_single_product"
                               ELSE "selenium_result"
  /\ UNCHANGED <<driver, _initialization_failed, procs, ret, sg_attempt, products,
                 called, gets>>

\* _scrape_single_product to its safe_get: link_element['href'] may be
\* missing, and the except clause then returns None.
scrape_single_product ==
  /\ Sync("scrape_single_product")
  /\ \E href \in hrefs :
       IF href
       THEN step' = "safe_get" /\ ret' = "product" /\ ev' = {}
       ELSE /\ step' = after_product(FALSE)
            /\ ret' = "none"
            /\ ev' = {"log: error scraping product details"}
  /\ UNCHANGED <<driver, _initialization_failed, procs, sg_attempt, page,
                 product_links, i, products, called, gets>>

\* _scrape_single_product after a successful safe_get: the wait for
\* product-info (a timeout is logged only), page_source and the extraction;
\* an exception returns None.
product_details ==
  /\ Sync("product_details")
  /\ \E extracted \in extracts :
       /\ ev' = IF extracted THEN {"wait", "page_source"}
                ELSE {"wait", "page_source",
                      "log: error scraping product details"}
       /\ products' = IF extracted THEN Append(products, i) ELSE products
       /\ step' = after_product(extracted)
  /\ ret' = "none"
  /\ UNCHANGED <<driver, _initialization_failed, procs, sg_attempt, page,
                 product_links, i, called, gets>>

\* time.sleep(random.uniform(product_delay_min, product_delay_max))
product_delay ==
  /\ Sync("product_delay")
  /\ ev' = {"time.sleep"}
  /\ i' = i + 1
  /\ step' = "scrape_single_product"
  /\ ret' = "none"
  /\ UNCHANGED <<driver, _initialization_failed, procs, sg_attempt, page,
                 product_links, products, called, gets>>

\* Mutant: the browser's list is not returned; the fallback runs after it.
selenium_result_falls_through ==
  /\ At("selenium_result")
  /\ UNCHANGED <<fixed, phase, exit_by, session>>
  /\ ev' = {}
  /\ step' = "fallback"
  /\ out' = NoResponse
  /\ page' = NoPage
  /\ product_links' = 0
  /\ i' = 0
  /\ gets' = NoGets
  /\ UNCHANGED <<request, history, running, ret, sg_attempt, products, called>>

\* Mutant: an empty browser result ends the attempt; the fallback is kept
\* for a poisoned session.
selenium_result_gives_up ==
  /\ At("selenium_result")
  /\ UNCHANGED <<fixed, phase, exit_by, session>>
  /\ IF products # <<>>
     THEN /\ ev' = {"log: found using Selenium"}
          /\ search_returns(running, products)
     ELSE /\ ev' = IF exhausted(running)
                   THEN {"log: no products found",
                         "log: all search attempts failed"}
                   ELSE {"log: no products found"}
          /\ next_attempt(running)

\* if products: return products -- else the fallback is tried.
selenium_result ==
  /\ At("selenium_result")
  /\ UNCHANGED <<fixed, phase, exit_by, session>>
  /\ IF products # <<>>
     THEN /\ ev' = {"log: found using Selenium"}
          /\ search_returns(running, products)
     ELSE /\ ev' = {}
          /\ step' = "fallback"
          /\ out' = NoResponse
          /\ page' = NoPage
          /\ product_links' = 0
          /\ i' = 0
          /\ gets' = NoGets
          /\ UNCHANGED <<request, history, running, ret, sg_attempt, products,
                         called>>

\* --------------------------------------------------------- fallback path
\* Where the fallback goes once product i is dealt with.
after_fallback_product ==
  IF i < product_links THEN "fallback_delay" ELSE "fallback_result"

\* FallbackScraper.search_products to the head of its product loop: the URL
\* is built outside the try (a raise there reaches the orchestrator's outer
\* except), then one GET, raise_for_status and the parse, all inside the try.
fallback_search_products ==
  /\ At("fallback")
  /\ UNCHANGED <<fixed, phase, exit_by, session>>
  /\ IF ~quote_ok(query[running][1])
     THEN /\ ev' = IF attempt[running] < max_retries - 1
                   THEN {"log: search attempt failed"}
                   ELSE {"log: search attempt failed",
                         "log: all search attempts failed"}
          /\ attempt_failed(running)
     ELSE /\ out' = NoResponse
          /\ called' = [called EXCEPT !.fallback = called.fallback + 1]
          /\ gets' = [search |-> 1, detail |-> 0]
          /\ products' = <<>>
          /\ \E fetched \in loads(0), pg \in served :
               IF ~fetched
               THEN /\ ev' = {"GET", "log: fallback search failed"}
                    /\ step' = "fallback_result"
                    /\ page' = NoPage
                    /\ product_links' = 0
                    /\ i' = 0
               ELSE /\ ev' = {"GET"}
                    /\ page' = pg
                    /\ IF no_results(pg)
                       THEN /\ step' = "fallback_result"
                            /\ product_links' = 0
                            /\ i' = 0
                       ELSE LET n == slice_len(pg.links, max_products_per_search) IN
                            /\ product_links' = n
                            /\ i' = IF n > 0 THEN 1 ELSE 0
                            /\ step' = IF n > 0 THEN "fallback_product"
                                       ELSE "fallback_result"
          /\ UNCHANGED <<request, history, running, ret, sg_attempt>>

\* _scrape_single_product_fallback: the href, one GET of the product page,
\* raise_for_status and the extraction; an exception returns None.
scrape_single_product_fallback ==
  /\ Sync("fallback_product")
  /\ \E href \in hrefs, fetched \in loads(i) :
       /\ ev' = (IF href THEN {"GET"} ELSE {}) \cup
                (IF href /\ fetched THEN {}
                 ELSE {"log: error scraping product details"})
       /\ gets' = IF href THEN [gets EXCEPT !.detail = gets.detail + 1] ELSE gets
       /\ products' = IF href /\ fetched THEN Append(products, i) ELSE products
  /\ step' = after_fallback_product
  /\ UNCHANGED <<driver, _initialization_failed, procs, ret, sg_attempt, page,
                 product_links, i, called>>

\* time.sleep(random.uniform(0.5, 1.0))
fallback_delay ==
  /\ Sync("fallback_delay")
  /\ ev' = {"time.sleep"}
  /\ i' = i + 1
  /\ step' = "fallback_product"
  /\ UNCHANGED <<driver, _initialization_failed, procs, ret, sg_attempt, page,
                 product_links, products, called, gets>>

\* if products: return products -- else "No products found on attempt" and
\* the loop goes on.
fallback_result ==
  /\ At("fallback_result")
  /\ UNCHANGED <<fixed, phase, exit_by, session>>
  /\ IF products # <<>>
     THEN /\ ev' = {"log: found using fallback"}
          /\ search_returns(running, products)
     ELSE /\ ev' = IF exhausted(running)
                   THEN {"log: no products found",
                         "log: all search attempts failed"}
                   ELSE {"log: no products found"}
          /\ next_attempt(running)

\* -------------------------------------------------------------- shutdown
\* server.run ends, by returning or by raising: serve() enters its finally.
run_exit ==
  /\ phase = "serving"
  /\ loop_free
  /\ phase' = "finally"
  /\ \E how \in {"return", "exception"} : exit_by' = how
  /\ ev' = {}
  /\ out' = NoResponse
  /\ UNCHANGED <<fixed, session, request, history, running, scrape>>

\* AsrockindServer.cleanup: cleanup_driver, then fallback_scraper.close().
cleanup ==
  /\ phase = "finally"
  /\ phase' = "stopped"
  /\ \E quit \in QuitOutcomes :
       LET c == cleanup_driver(driver, procs, quit) IN
       /\ driver' = c.driver
       /\ procs' = c.procs
       /\ ev' = c.ev
       /\ session_closed' = ~c.raised
  /\ out' = NoResponse
  /\ UNCHANGED <<fixed, exit_by, _initialization_failed, request, history,
                 running, scrape>>

\* ---------------------------------------------------------- specification
Next ==
  \/ AsrockindServer_init
  \/ \E r \in Requests : call_tool(r)
  \/ \E r \in Requests : search_products(r)
  \/ \E r \in Requests : backoff(r)
  \/ safe_get
  \/ ensure_driver
  \/ launch_driver
  \/ driver_get
  \/ retry_delay
  \/ wait_results
  \/ page_source
  \/ scrape_single_product
  \/ product_details
  \/ product_delay
  \/ selenium_result
  \/ fallback_search_products
  \/ scrape_single_product_fallback
  \/ fallback_delay
  \/ fallback_result
  \/ run_exit
  \/ cleanup

Spec == Init /\ [][Next]_vars

\* The server as it starts, with the default product cap, facing an
\* unchanged catalog: what a URL serves and whether it fails is the same at
\* every request; only the browser's health (launches, liveness probes,
\* quits) still varies.
CatalogInit ==
  /\ max_retries \in RetryValues
  /\ max_products_per_search = 3
  /\ Unstarted
  /\ site \in Sites
  /\ soup = <<>>
  /\ extractor = "none"
  /\ specs = None

CatalogSpec == CatalogInit /\ [][Next]_vars

\* ------------------------------------------------- the two extractors
\* The product pages tried.  Cells: plain, padded, split over two text nodes,
\* without text, blank, and the header word of a table.
CellK == << <<"K">> >>
CellKPadded == << <<" ", "K", " ">> >>
CellKSplit == << <<"K", " ">>, <<"k">> >>
CellV == << <<"V">> >>
CellVPadded == << <<" ", "V">> >>
CellW == << <<"W">> >>
CellEmpty == <<>>
CellBlank == << <<" ">> >>
CellFeature == << <<"F", "e", "a", "t", "u", "r", "e">> >>

SampleRows ==
  { <<>>,
    <<CellK>>,
    <<CellK, CellV>>,
    <<CellKPadded, CellVPadded>>,
    <<CellKSplit, CellV>>,
    <<CellK, CellBlank>>,
    <<CellEmpty, CellV>>,
    <<CellFeature, CellV>>,
    <<CellK, CellV, CellW>> }

SampleTables ==
  {Table(c, <<r>>) : c \in TableClasses, r \in SampleRows}
  \cup {Table(c, <<<<CellK, CellV>>, <<CellK, CellW>>>>) : c \in TableClasses}
  \cup {Table(c, <<<<CellFeature, CellV>>, <<CellV, CellK>>>>) : c \in TableClasses}

\* What stands before the table: nothing, a category heading, a heading
\* without text, headings of other kinds, and two headings.
SamplePrefixes ==
  { <<>>,
    <<Heading("h3", "title-sub", << <<"C">> >>)>>,
    <<Heading("h3", "title-sub", << <<" ", "C", " ">> >>)>>,
    <<Heading("h3", "title-sub", << <<" ">> >>)>>,
    <<Heading("h3", "title-sub", <<>>)>>,
    <<Heading("h3", "", << <<"C">> >>)>>,
    <<Heading("h2", "", << <<"C">> >>)>>,
    <<Heading("h4", "", << <<"C">> >>)>>,
    <<Heading("h3", "title-sub", << <<"C">> >>), Heading("h3", "", << <<"D">> >>)>>,
    <<Heading("h2", "", << <<"C">> >>), Heading("h3", "", << <<" ">> >>)>> }

\* A text of n characters.
Filler(n) == [k \in 1..n |-> "x"]
\* What stands after the table: nothing, or a description block whose text
\* is at, or just over, one of the two lengths the fallback tests.
SampleSuffixes ==
  {<<>>}
  \cup {<<Block("overview", <<Filler(n)>>)>> :
          n \in {DescMinLength, DescMinLength + 1, DescMaxLength, DescMaxLength + 1}}

Soups ==
  {p \o <<t>> \o x : p \in SamplePrefixes, t \in SampleTables, x \in SampleSuffixes}
  \cup {<<Heading("h3", "title-sub", << <<"C">> >>), t1,
          Heading("h3", "title-sub", << <<"D">> >>), t2>> :
          t1 \in {Table("table-spec", <<r>>) : r \in {<<CellK, CellV>>}},
          t2 \in {Table(c, <<<<CellK, CellW>>>>) : c \in TableClasses}}

Extractors == {"browser", "fallback"}

\* A product page has been parsed and is about to be handed to an extractor.
ExtractInit ==
  /\ max_retries = 2
  /\ max_products_per_search = 3
  /\ Unstarted
  /\ site = AnySite
  /\ soup \in Soups
  /\ extractor \in Extractors
  /\ specs = None

\* specs = self._extract_specifications(soup)
extract_specifications ==
  /\ extractor = "browser"
  /\ specs = None
  /\ specs' = Some(_extract_specifications(soup))
  /\ UNCHANGED <<config, site, soup, extractor, phase, exit_by, session,
                 request, history, running, scrape, ev, out>>

\* specs = self._extract_specifications_simple(soup)
extract_specifications_simple ==
  /\ extractor = "fallback"
  /\ specs = None
  /\ specs' = Some(_extract_specifications_simple(soup))
  /\ UNCHANGED <<config, site, soup, extractor, phase, exit_by, session,
                 request, history, running, scrape, ev, out>>

ExtractNext == extract_specifications \/ extract_specifications_simple

ExtractSpec == ExtractInit /\ [][ExtractNext]_vars

\* ================================================================ claims
\* A query that call_tool must reject: missing, or shorter than 2 characters
\* once trimmed.  An unknown tool's error carries no query.
InvalidQuery(q) == q = None \/ Len(strip(q[1])) < MinQueryLength

\* C1: a call with a valid query never ends in an error: whatever the browser
\* launch, the navigations, the waits, the HTTP requests and the extractions
\* do, every error the caller sees belongs to a rejected query or an unknown
\* tool, and a request in flight with a valid query is answered by an envelope
\* whose products form a list.
C1_ValidQueryGetsEnvelope ==
  /\ out.kind = "error" => InvalidQuery(out.query)
  /\ out.kind = "envelope" =>
       /\ ~InvalidQuery(out.query)
       /\ out.products \in Seq(1..MaxLinks)

\* C1 witness: an envelope with no product is returned by a search in which
\* every attempt failed on a poisoned session that still holds a handle.
C1_Witness ==
  /\ out.kind = "envelope"
  /\ out.products = <<>>
  /\ _initialization_failed
  /\ driver
  /\ "log: all search attempts failed" \in ev

\* C2: a call whose query is missing, empty or shorter than 2 characters once
\* trimmed never enters the orchestrator and never gets an envelope; its error
\* is raised by the very step in which the call arrived, a step that runs no
\* attempt, launches and navigates no browser and sends no GET.
C2_InvalidQueryRejectedBeforeScraping ==
  /\ [](\A r \in Requests : pc[r] # "idle" => ~InvalidQuery(query[r]))
  /\ [](out.kind = "envelope" => ~InvalidQuery(out.query))
  /\ [][(out'.kind = "error" /\ InvalidQuery(out'.query)) =>
          /\ pc[out'.request] = "idle"
          /\ attempts[out'.request] = 0
          /\ running = 0
          /\ running' = 0
          /\ step' = "none"
          /\ ev' = {}]_vars

\* C2 witness: a query of one character after trimming is rejected while
\* another request is in flight on a live browser session.
C2_Witness ==
  /\ out.kind = "error"
  /\ out.query = Some(<<"a">>)
  /\ driver
  /\ \E r \in Requests : pc[r] = "search_delay"

\* C3: when scrape_search_results has returned at least one product, the next
\* step answers the call with exactly that list: the fallback has not been and
\* is not invoked in this attempt, and no further attempt starts.
C3_BrowserResultShortCircuits ==
  [][(step = "selenium_result" /\ products # <<>>) =>
       /\ out'.kind = "envelope"
       /\ out'.request = running
       /\ out'.products = products
       /\ called.fallback = 0
       /\ "GET" \notin ev'
       /\ pc'[running] = "idle"
       /\ step' = "none"]_vars

\* C3 witness: a call has just been answered with two products found by the
\* browser path.
C3_Witness ==
  /\ out.kind = "envelope"
  /\ Len(out.products) = 2
  /\ "log: found using Selenium" \in ev

\* C4: once _initialization_failed is set it stays set, no step launches a
\* browser or navigates one, and every attempt that starts goes to the HTTP
\* fallback without calling the browser search.
C4_PoisonedSessionStaysDead ==
  [][_initialization_failed =>
       /\ _initialization_failed'
       /\ "launch" \notin ev'
       /\ "navigate" \notin ev'
       /\ \A r \in Requests :
            (pc[r] = "search_delay" /\ pc'[r] = "running") =>
              (called'.selenium = 0 /\ step' = "fallback")]_vars

\* C4 witness: on a poisoned session a search that never called the browser
\* path is fetching a product page over HTTP.
C4_Witness ==
  /\ _initialization_failed
  /\ called.selenium = 0
  /\ step = "fallback_product"
  /\ i = 2

\* C5: every envelope reports "Fallback only (requests)" exactly when the
\* session is poisoned as the response is built, "Selenium + Fallback
\* (requests)" otherwise; and a poisoned session stays poisoned, so every
\* later envelope reports the fallback too.
C5_SearchMethodFollowsFlag ==
  /\ [](out.kind = "envelope" =>
          out.search_method = IF _initialization_failed
                              THEN "Fallback only (requests)"
                              ELSE "Selenium + Fallback (requests)")
  /\ [][_initialization_failed => _initialization_failed']_vars

\* C5 witness: an envelope with products reports the fallback method.
C5_Witness ==
  /\ out.kind = "envelope"
  /\ out.total_results > 0
  /\ out.search_method = "Fallback only (requests)"

\* C6: whenever a path returns products, and in every envelope that carries
\* products, their number is at most max_products_per_search (a search that
\* returns no product exceeds no cap).
C6_ProductCount ==
  /\ (step \in {"selenium_result", "fallback_result"} /\ products # <<>>) =>
       Len(products) <= max_products_per_search
  /\ (out.kind = "envelope" /\ out.products # <<>>) =>
       Len(out.products) <= max_products_per_search

\* C7: in every envelope total_results is the number of entries of products.
C7_TotalResults ==
  out.kind = "envelope" => out.total_results = Len(out.products)

\* C7 witness: an envelope with one product, scraped from a page whose other
\* selected link gave no product.
C7_Witness ==
  /\ out.kind = "envelope"
  /\ out.total_results = 1
  /\ out.products = <<2>>

\* The synchronous steps of a search.
SyncStep ==
  \/ safe_get \/ ensure_driver \/ launch_driver \/ driver_get \/ retry_delay
  \/ wait_results
  \/ page_source \/ scrape_single_product \/ product_details \/ product_delay
  \/ selenium_result \/ fallback_search_products
  \/ scrape_single_product_fallback \/ fallback_delay \/ fallback_result

\* Steps a safe_get still has before it, at most.
SafeGetRank ==
  CASE step = "safe_get" -> 4 * max_retries + 1
    [] step = "ensure_driver" -> 4 * (max_retries - sg_attempt)
    [] step = "launch_driver" -> 4 * (max_retries - sg_attempt) - 1
    [] step = "driver_get" -> 4 * (max_retries - sg_attempt) - 2
    [] step = "retry_delay" -> 4 * (max_retries - sg_attempt) - 3
    [] OTHER -> 0

\* Steps one product of the browser path takes, at most.
ProductRank == 4 * max_retries + 5
\* Steps a fallback search takes, at most.
FallbackRank == 2 * MaxLinks + 3
\* Steps one attempt takes, at most.
AttemptRank == FallbackRank + (MaxLinks + 1) * ProductRank + 4 * max_retries + 10

\* Steps the running attempt still has before it, at most.
StepRank ==
  CASE step \in InSafeGet /\ ret = "search" ->
         FallbackRank + (MaxLinks + 1) * ProductRank + 5 + SafeGetRank
    [] step = "wait_results" -> FallbackRank + (MaxLinks + 1) * ProductRank + 4
    [] step = "page_source" -> FallbackRank + (MaxLinks + 1) * ProductRank + 3
    [] step = "scrape_single_product" ->
         FallbackRank + 1 + (product_links - i) * ProductRank + 4 * max_retries + 4
    [] step \in InSafeGet /\ ret = "product" ->
         FallbackRank + 1 + (product_links - i) * ProductRank + 2 + SafeGetRank
    [] step = "product_details" ->
         FallbackRank + 1 + (product_links - i) * ProductRank + 2
    [] step = "product_delay" ->
         FallbackRank + 1 + (product_links - i) * ProductRank + 1
    [] step = "selenium_result" -> FallbackRank + 1
    [] step = "fallback" -> FallbackRank
    [] step = "fallback_product" -> 2 * (product_links - i) + 2
    [] step = "fallback_delay" -> 2 * (product_links - i) + 1
    [] step = "fallback_result" -> 1
    [] OTHER -> 0

\* Steps request r still has before its call is answered, at most.
Rank(r) ==
  CASE pc[r] = "idle" -> 0
    [] pc[r] = "search_delay" ->
         (max_retries - attempt[r]) * (AttemptRank + 2) + AttemptRank
    [] pc[r] = "running" ->
         (max_retries - attempt[r]) * (AttemptRank + 2) + StepRank
    [] pc[r] = "backoff" ->
         (max_retries - attempt[r]) * (AttemptRank + 2) - 1

\* Rank(r) in the next state.
RankNext(r) == Rank(r)'

\* C8: a call enters the loop body at most max_retries times, an attempt
\* calls the browser search and the fallback search at most once each, an
\* exhausted search returns the empty list, and the call terminates: a request
\* in flight can always take a step while the server runs, and each of its
\* steps strictly lowers a bound on the steps it has left.
C8_BoundedAttemptsAndTermination ==
  /\ [](\A r \in Requests :
          /\ attempts[r] > 0 => attempts[r] <= max_retries
          /\ pc[r] # "idle" => attempts[r] = attempt[r] + 1)
  /\ [](called.selenium <= 1 /\ called.fallback <= 1)
  /\ []("log: all search attempts failed" \in ev =>
          (out.kind = "envelope" /\ out.products = <<>>))
  /\ [](phase = "serving" =>
          /\ running # 0 => ENABLED SyncStep
          /\ \A r \in Requests :
               (running = 0 /\ pc[r] # "idle") =>
                 ENABLED (search_products(r) \/ backoff(r)))
  /\ [][\A r \in Requests :
          pc[r] # "idle" =>
            /\ RankNext(r) <= Rank(r)
            /\ (running = r \/ pc'[r] # pc[r]) => RankNext(r) < Rank(r)]_vars

\* C8 witness: a search whose two attempts each ran the browser search and
\* the fallback search has just returned the empty list.
C8_Witness ==
  /\ out.kind = "envelope"
  /\ out.products = <<>>
  /\ max_retries = 2
  /\ ~_initialization_failed
  /\ ev = {"log: no products found", "log: all search attempts failed"}

\* C9: a path that parsed a search page holding the no-results marker is
\* returning normally, with no product and no link selected, whatever links
\* the page holds; it has sent no GET for a product page, and the step that
\* follows navigates nowhere and sends no GET.
C9_NoResultMarker ==
  /\ [](page.no_result =>
          /\ step \in {"selenium_result", "fallback_result"}
          /\ products = <<>>
          /\ product_links = 0
          /\ i = 0
          /\ gets.detail = 0)
  /\ [][page.no_result => ("navigate" \notin ev' /\ "GET" \notin ev')]_vars

\* C9 witness: the browser path returns from a page that holds the marker
\* and product links as well.
C9_Witness ==
  /\ step = "selenium_result"
  /\ page.no_result
  /\ page.links > 0

\* C10: however server.run ended, the finally block is entered and its one
\* step leaves no browser handle and a closed HTTP session, calling quit() on
\* a handle that was held; a quit() that raises changes none of this.
C10_ShutdownReleases ==
  /\ [](phase = "stopped" => (~driver /\ session_closed))
  /\ [](phase = "finally" => (exit_by \in {"return", "exception"} /\ ENABLED cleanup))
  /\ [][phase = "serving" => phase' \in {"serving", "finally"}]_vars
  /\ [][phase = "finally" =>
          /\ phase' = "stopped"
          /\ ~driver'
          /\ session_closed'
          /\ driver => "quit" \in ev']_vars

\* C10 witness: the run loop raised, quit() raised during cleanup, and both
\* resources are released all the same.
C10_Witness ==
  /\ phase = "stopped"
  /\ exit_by = "exception"
  /\ "quit_raised" \in ev
  /\ ~driver
  /\ session_closed

\* A cell's text as the extractor at work reads it.
ReadText(strings) ==
  IF extractor = "browser" THEN text_strip(strings) ELSE get_text_strip(strings)

\* The table at position k of the page is one the extractor at work selects.
SelectedTable(k) ==
  /\ soup[k].tag = "table"
  /\ IF extractor = "browser"
     THEN soup[k].class = "table-spec"
     ELSE soup[k].class \in {"table-spec", "product-specs"}

\* The heading element the extractor at work finds for the table at k, if any.
HeadingFound(k) ==
  IF extractor = "browser"
  THEN find_previous(soup, k - 1, "h3", "title-sub")
  ELSE IF find_previous(soup, k - 1, "h3", "") # None
       THEN find_previous(soup, k - 1, "h3", "")
       ELSE IF find_previous(soup, k - 1, "h2", "") # None
            THEN find_previous(soup, k - 1, "h2", "")
            ELSE find_previous(soup, k - 1, "h4", "")

\* The rows of the page that may give a key: at least 2 cells, and a field
\* and a value that are not empty.
KeyRows ==
  {kj \in (1..Len(soup)) \X (1..2) :
     /\ SelectedTable(kj[1])
     /\ kj[2] <= Len(soup[kj[1]].rows)
     /\ Len(soup[kj[1]].rows[kj[2]]) >= 2
     /\ ReadText(soup[kj[1]].rows[kj[2]][1]) # <<>>
     /\ ReadText(soup[kj[1]].rows[kj[2]][2]) # <<>>}

\* The field of a row.
Field(kj) == ReadText(soup[kj[1]].rows[kj[2]][1])

\* specs holds nothing but the Description the fallback takes from a
\* description block when no table row gave a key.
OnlyDescription ==
  /\ extractor = "fallback"
  /\ DOMAIN specs[1] = {Description}
  /\ \E k \in 1..Len(soup) : soup[k].tag = "div"

\* C11 as claimed: every key taken from a table row comes from a row with at
\* least 2 cells and a non-empty field and value, and is "<category> -
\* <field>" when a heading was found for the table, "<field>" when none was.
C11_KeysAsClaimed ==
  (specs # None /\ ~OnlyDescription) =>
    \A key \in DOMAIN specs[1] :
      \E kj \in KeyRows :
        key = IF HeadingFound(kj[1]) # None
              THEN ReadText(HeadingFound(kj[1])[1].strings)
                     \o <<" ", "-", " ">> \o Field(kj)
              ELSE Field(kj)

\* C11, amended: every key taken from a table row comes from a row with at
\* least 2 cells and a non-empty field and value, and is "<category> -
\* <field>" when a heading with a non-blank text was found for the table,
\* "<field>" when no heading was found or the heading's text is blank.
C11_SpecificationKeys ==
  (specs # None /\ ~OnlyDescription) =>
    \A key \in DOMAIN specs[1] :
      \E kj \in KeyRows :
        key = IF /\ HeadingFound(kj[1]) # None
                 /\ ReadText(HeadingFound(kj[1])[1].strings) # <<>>
              THEN ReadText(HeadingFound(kj[1])[1].strings)
                     \o <<" ", "-", " ">> \o Field(kj)
              ELSE Field(kj)

\* C11 witness: the fallback has read a table under a padded heading and
\* returned the one key "C - K".
C11_Witness ==
  /\ extractor = "fallback"
  /\ specs # None
  /\ HeadingFound(Len(soup)) # None
  /\ concat(HeadingFound(Len(soup))[1].strings) = <<" ", "C", " ">>
  /\ DOMAIN specs[1] = {<<"C", " ", "-", " ", "K">>}

\* C12: on an unchanged catalog, a call that repeats the query of the first
\* search answered returns the same set of products (a product standing for
\* the name and URL of its link on the search page), whatever the first call
\* did to the browser session.
C12_RepeatedQuery ==
  (out.kind = "envelope" /\ out.request \in repeat /\ first # None) =>
    Range(out.products) = first[1].products

\* C13: the orchestrator's loop goes from one attempt to the next only
\* through the doubled retry delay: no step moves a request to its next
\* attempt but the one that ends asyncio.sleep(2 * retry_delay), so an
\* attempt whose two paths gave nothing is followed by that sleep.
C13_BackoffBeforeNextAttempt ==
  [][\A r \in Requests :
       (pc[r] # "idle" /\ attempt'[r] = attempt[r] + 1) =>
         "asyncio.sleep(2 * retry_delay)" \in ev']_vars

\* C14: an attempt ends in one of three steps only: the browser's non-empty
\* list is returned; the fallback search, invoked once in this attempt, has
\* returned; or the fallback search is invoked by this very step and raises.
\* So whenever the browser path gives no products (session poisoned, search
\* empty, search raised) the fallback is invoked in the same attempt, and a
\* search with max_retries >= 1 returns the empty list only at the end of
\* attempt number max_retries, each attempt having invoked the fallback.
C14_FallbackInEveryAttempt ==
  /\ [](step \in {"fallback_product", "fallback_delay", "fallback_result"} =>
          called.fallback = 1)
  /\ [][\A r \in Requests :
          (pc[r] = "running" /\ pc'[r] # "running") =>
            \/ /\ step = "selenium_result"
               /\ products # <<>>
               /\ out'.kind = "envelope"
               /\ out'.products = products
            \/ step = "fallback_result" /\ called.fallback = 1
            \/ step = "fallback" /\ "log: search attempt failed" \in ev']_vars
  /\ [][(out'.kind = "envelope" /\ out'.products = <<>> /\ max_retries >= 1) =>
          /\ step \in {"fallback_result", "fallback"}
          /\ attempts[out'.request] = max_retries]_vars

\* C14 witness: on a poisoned session without a handle, a search of two
\* attempts, each of which went to the fallback, returns the empty list.
C14_Witness ==
  /\ out.kind = "envelope"
  /\ out.products = <<>>
  /\ max_retries = 2
  /\ _initialization_failed
  /\ ~driver
  /\ ev = {"log: no products found", "log: all search attempts failed"}

\* Where safe_get's caller stands once safe_get has returned True, and once
\* it has returned False (had safe_get raised in scrape_search_results, the
\* orchestrator would stand at "fallback").
SafeGetTrue == IF ret = "search" THEN "wait_results" ELSE "product_details"
SafeGetFalse ==
  IF ret = "search" \/ i >= product_links
  THEN "selenium_result" ELSE "product_delay"

\* C15: inside safe_get the navigation numbered sg_attempt + 1 is never
\* beyond max_retries; every navigation directly follows ensure_driver,
\* which probed the browser alive or launched one, and runs on a held
\* handle with the flag clear; a failed navigation with retries left is
\* followed by time.sleep and the next attempt; safe_get returns True exactly
\* on a navigation that succeeded, and returns False, never raising, when the
\* session is Dead on entry, when ensure_driver fails to relaunch, and when
\* the last navigation allowed has failed.
C15_SafeGet ==
  /\ [](step \in {"ensure_driver", "launch_driver", "driver_get", "retry_delay"} =>
          (0 <= sg_attempt /\ sg_attempt < max_retries))
  /\ []("navigate" \in ev => (driver /\ ~_initialization_failed))
  /\ [][("navigate" \in ev' \/ step' = "driver_get") =>
          /\ step' = "driver_get" => step \in {"ensure_driver", "launch_driver"}
          /\ "navigate" \in ev' => step = "driver_get"
          /\ step' = "driver_get" => ("probe" \in ev' \/ "launch" \in ev')
          /\ driver'
          /\ ~_initialization_failed']_vars
  /\ [][step = "driver_get" =>
          IF "log: navigation failed" \notin ev'
          THEN step' = SafeGetTrue
          ELSE IF sg_attempt < max_retries - 1
               THEN step' = "retry_delay" /\ sg_attempt' = sg_attempt
               ELSE step' = SafeGetFalse]_vars
  /\ [][step = "retry_delay" =>
          /\ ev' = {"time.sleep"}
          /\ step' = "ensure_driver"
          /\ sg_attempt' = sg_attempt + 1]_vars
  /\ [][(step \in InSafeGet /\ step' \notin InSafeGet) =>
          \/ /\ step' = SafeGetTrue
             /\ step = "driver_get"
             /\ "log: navigation failed" \notin ev'
          \/ /\ step' = SafeGetFalse
             /\ \/ step = "safe_get" /\ (_initialization_failed \/ max_retries <= 0)
                \/ step \in {"ensure_driver", "launch_driver"} /\ _initialization_failed'
                \/ /\ step = "driver_get"
                   /\ "log: navigation failed" \in ev'
                   /\ sg_attempt = max_retries - 1]_vars
  /\ [][(step = "safe_get" /\ _initialization_failed) =>
          (step' = SafeGetFalse /\ ev' = {})]_vars
  /\ [][(step \in {"ensure_driver", "launch_driver"} /\ _initialization_failed') =>
          step' = SafeGetFalse]_vars

\* C15 witness: with max_retries = 2 the second navigation to the search
\* page has failed too and safe_get has returned False.
C15_Witness ==
  /\ max_retries = 2
  /\ step = "selenium_result"
  /\ page = NoPage
  /\ ev = {"navigate", "log: navigation failed"}

\* C16: at most one browser process is launched and not quit at any time,
\* and it is the one the handle refers to; a browser is only launched when
\* none is left, and when the probe of a held browser fails, ensure_driver
\* quits it and drops the handle before the launch.
C16_AtMostOneBrowser ==
  /\ [](procs \in {0, 1} /\ (driver <=> procs = 1))
  /\ [][procs' > procs => ("launch" \in ev' /\ procs = 0 /\ ~driver)]_vars
  /\ [][(step = "ensure_driver" /\ driver /\ step' = "launch_driver") =>
          ("quit" \in ev' /\ ~driver' /\ procs' = 0)]_vars
  /\ [](step = "launch_driver" => (~driver /\ procs = 0))

\* C16 witness: the browser held did not answer the probe, was quit, and a
\* new one has been launched for the navigation.
C16_Witness ==
  /\ phase = "serving"
  /\ step = "driver_get"
  /\ ev = {"launch"}
  /\ driver /\ procs = 1

\* C17: while the session is Dead and the process has not shut down, no
\* browser handle is held and no launched browser is left un-quit,
\* whichever step of the launch raised.
C17_DeadSessionHoldsNothing ==
  (_initialization_failed /\ phase \in {"serving", "finally"}) =>
    (~driver /\ procs = 0)

\* C18 as stated: a browser launch is attempted, and the session can
\* become Dead, only inside the navigation of a search that is running:
\* never before the first search request reaches the orchestrator.
C18_LazyLaunch ==
  [][("launch" \in ev' \/ (_initialization_failed' /\ ~_initialization_failed)) =>
       (phase = "serving" /\ running # 0 /\ step = "launch_driver")]_vars

\* C18: the construction of the server attempts one browser launch, before
\* any request is served; after it a launch is attempted, and the session
\* can become Dead, only inside the navigation of a running search, right
\* after the probe of the held browser raised and that browser was quit.
C18_LaunchAtConstructionOrOnUse ==
  /\ [][phase = "boot" => (phase' = "serving" /\ "launch" \in ev')]_vars
  /\ [][(phase # "boot" /\
          ("launch" \in ev' \/ (_initialization_failed' /\ ~_initialization_failed))) =>
          (phase = "serving" /\ running # 0 /\ step = "launch_driver")]_vars
  /\ [][step' = "launch_driver" =>
          /\ step = "ensure_driver"
          /\ {"probe", "probe_raised", "quit"} \subseteq ev']_vars
  /\ [][step = "launch_driver" => "launch" \in ev']_vars

\* C18 witness: a search is running, the relaunch its navigation needed has
\* raised, and the session is Dead without a handle.
C18_Witness ==
  /\ phase = "serving"
  /\ running # 0
  /\ "launch" \in ev
  /\ _initialization_failed
  /\ ~driver

\* The steps that deal with product i of the loop, on either path.
ProductStep ==
  \/ step \in {"scrape_single_product", "product_details", "fallback_product"}
  \/ step \in InSafeGet /\ ret = "product"

BrowserLoop ==
  \/ step \in {"scrape_single_product", "product_details", "product_delay"}
  \/ step \in InSafeGet /\ ret = "product"

Increasing(seq) ==
  \A a, b \in 1..Len(seq) : a < b => seq[a] < seq[b]

\* The step that ends product i got its page and its specifications.
DetailFetched ==
  /\ step \in {"product_details", "fallback_product"}
  /\ "log: error scraping product details" \notin ev'

\* C19: the loop over the n selected links deals with them one by one in
\* page order whatever fails: product i ends with the list unchanged (it
\* failed) or with i appended (its detail fetch succeeded), and then the
\* loop goes on to product i + 1, or returns after product n; the list
\* returned holds exactly the products that succeeded, in page order.
C19_OneBadProductSkipped ==
  /\ []((ProductStep \/ step \in {"product_delay", "fallback_delay"}) =>
          /\ 1 <= i /\ i <= product_links
          /\ Increasing(products)
          /\ \A k \in Range(products) :
               1 <= k /\ (IF ProductStep THEN k < i ELSE k <= i))
  /\ []((step \in {"selenium_result", "fallback_result"} /\ product_links > 0) =>
          /\ i = product_links
          /\ Increasing(products)
          /\ Range(products) \subseteq 1..product_links)
  /\ [][(ProductStep /\ ProductStep') => UNCHANGED <<i, product_links, products>>]_vars
  /\ [][(ProductStep /\ ~ProductStep') =>
          /\ UNCHANGED <<i, product_links>>
          /\ IF DetailFetched THEN products' = Append(products, i)
             ELSE products' = products
          /\ step' = IF BrowserLoop
                     THEN (IF i < product_links THEN "product_delay"
                           ELSE "selenium_result")
                     ELSE (IF i < product_links THEN "fallback_delay"
                           ELSE "fallback_result")]_vars
  /\ [][(step \in {"product_delay", "fallback_delay"}) =>
          /\ i' = i + 1
          /\ UNCHANGED <<product_links, products>>
          /\ step' = (IF step = "product_delay" THEN "scrape_single_product"
                      ELSE "fallback_product")]_vars

\* C19 witness: of three links the browser scraped the first and the third;
\* the second failed and was skipped.
C19_Witness ==
  /\ step = "selenium_result"
  /\ product_links = 3
  /\ products = <<1, 3>>

\* The wait of the last step for a link or the no-results marker timed out.
WaitTimedOut == "log: timeout waiting for search results" \in ev

\* C20: the wait for the search results starts on the loaded search page
\* with nothing scraped; when it times out, scrape_search_results returns
\* the empty list in that very step, nothing is raised or answered and no
\* page is fetched, and the next step of the same attempt of the same
\* request is the fallback search.
C20_WaitTimeout ==
  /\ [](step = "wait_results" =>
          (products = <<>> /\ product_links = 0 /\ i = 0 /\ driver))
  /\ [][WaitTimedOut' =>
          /\ step = "wait_results"
          /\ step' = "selenium_result"
          /\ products' = <<>> /\ product_links' = 0 /\ i' = 0
          /\ "navigate" \notin ev'
          /\ out' = NoResponse
          /\ UNCHANGED <<phase, request, running>>]_vars
  /\ [][WaitTimedOut =>
          /\ step = "selenium_result"
          /\ step' = "fallback"
          /\ ev' = {}
          /\ out' = NoResponse
          /\ UNCHANGED <<phase, request, running>>]_vars

\* C20 witness: the wait has timed out and scrape_search_results has
\* returned to the orchestrator.
C20_Witness ==
  /\ step = "selenium_result"
  /\ WaitTimedOut
  /\ products = <<>>

\* The steps of a browser or fallback search, navigations and delays
\* included.
ScrapingSteps ==
  InSafeGet \cup
  {"wait_results", "page_source", "scrape_single_product", "product_details",
   "product_delay", "selenium_result", "fallback", "fallback_product",
   "fallback_delay", "fallback_result"}

\* C21: at most one request is inside a browser or fallback search at a
\* time, and from the start of its search to its end every step taken is a
\* step of that request: no other request starts, resumes or answers, and
\* the scraping state is that of the one search.
C21_ScrapingNeverOverlaps ==
  /\ [](Cardinality({r \in Requests : pc[r] = "running"}) <= 1)
  /\ [](\A r \in Requests : pc[r] = "running" <=> running = r)
  /\ [](running # 0 <=> step \in ScrapingSteps)
  /\ [][running # 0 =>
          /\ running' \in {running, 0}
          /\ \A r \in Requests \ {running} :
               /\ pc'[r] = pc[r]
               /\ query'[r] = query[r]
               /\ attempt'[r] = attempt[r]
          /\ out'.kind # "none" => out'.request = running
          /\ running' = running => SyncStep]_vars
  /\ [][(running = 0 /\ running' # 0) =>
          (step' \in {"safe_get", "fallback"} /\ products' = <<>>)]_vars

\* C21 witness: one request is navigating to a product page on the shared
\* browser while another one is in flight, waiting in its search delay.
C21_Witness ==
  /\ running # 0
  /\ step = "driver_get"
  /\ ret = "product"
  /\ \E r \in Requests \ {running} : pc[r] \in {"search_delay", "backoff"}

\* The steps that sleep a randomized delay inside a search, navigate the
\* browser or send an HTTP GET.
SleepOrIO ==
  {"retry_delay", "product_delay", "fallback_delay", "driver_get",
   "fallback", "fallback_product"}

\* C22: while a search stands in a navigation-retry delay, a delay between
\* products, a browser navigation or an HTTP GET, the handler of another
\* request can take a step: be called, or resume after its own delay.
C22_SleepsAndIOSuspend ==
  (running # 0 /\ step \in SleepOrIO) =>
    \E r \in Requests \ {running} :
      ENABLED (call_tool(r) \/ search_products(r) \/ backoff(r))

\* The key the row kj of KeyRows gives.
KeyOf(kj) ==
  IF /\ HeadingFound(kj[1]) # None
     /\ ReadText(HeadingFound(kj[1])[1].strings) # <<>>
  THEN ReadText(HeadingFound(kj[1])[1].strings) \o <<" ", "-", " ">> \o Field(kj)
  ELSE Field(kj)

\* The rows whose first cell reads "specification" or "feature" in any case.
HeaderRows == {kj \in KeyRows : lower(Field(kj)) \in HeaderKeys}

\* C23: the specifications the browser path extracts hold no key that
\* comes from a row whose first cell reads "specification" or "feature".
C23_BrowserSkipsHeaderRows ==
  (extractor = "browser" /\ specs # None) =>
    \A kj \in HeaderRows : KeyOf(kj) \notin DOMAIN specs[1]

\* The steps of a fallback search after its GET of the search page.
FallbackLoop == {"fallback_product", "fallback_delay", "fallback_result"}

\* C24: a fallback search sends one GET for the search page and then at
\* most one GET per selected link, product after product and never twice
\* for one page, at most 1 + max_products_per_search in all; when the GET
\* of the search page fails the search returns the empty list at once, and
\* when the GET of a product page fails the list is left as it was and the
\* loop goes on.
C24_FallbackGets ==
  /\ [](step \in FallbackLoop =>
          /\ gets.search = 1
          /\ gets.detail <= (IF step = "fallback_product" THEN i - 1 ELSE i)
          /\ gets.detail <= product_links)
  /\ [](step = "fallback_result" =>
          gets.search + gets.detail <= 1 + max_products_per_search)
  /\ [][(step \in {"fallback"} \cup FallbackLoop /\ step' \in FallbackLoop) =>
          IF "GET" \in ev'
          THEN \/ step = "fallback" /\ gets' = [search |-> 1, detail |-> 0]
               \/ /\ step = "fallback_product"
                  /\ gets' = [gets EXCEPT !.detail = gets.detail + 1]
          ELSE gets' = gets]_vars
  /\ [][("log: fallback search failed" \in ev') =>
          /\ step = "fallback"
          /\ step' = "fallback_result"
          /\ products' = <<>>
          /\ product_links' = 0]_vars
  /\ [][(step = "fallback_product" /\
          "log: error scraping product details" \in ev') =>
          /\ products' = products
          /\ step' = (IF i < product_links THEN "fallback_delay"
                      ELSE "fallback_result")]_vars

\* C25: a response that reports "Fallback only (requests)" and holds
\* products is returned by the fallback search: none of its products comes
\* from the browser path.
C25_MethodAgreesWithPath ==
  [][(/\ out'.kind = "envelope"
      /\ out'.search_method = "Fallback only (requests)"
      /\ out'.products # <<>>) =>
       (step = "fallback_result" /\ "log: found using Selenium" \notin ev')]_vars

====
